---------------------------- MODULE Spec2Model ----------------------------
(***************************************************************************)
(* A model of the source-code highlighter of script.js:                    *)
(* highlightPatterns (the ordered rule table), highlightTypeScript with    *)
(* its inner applyPattern and escapeHtml.                                  *)
(*                                                                         *)
(* Texts are TLA+ strings (sequences of characters).  Offsets are the      *)
(* offsets of the JavaScript code: 0-based, `end` exclusive.               *)
(***************************************************************************)
EXTENDS Naturals, Integers, Sequences, FiniteSets, TLC

(***************************************************************************)
(* Strings: the JavaScript string operations the code uses.                *)
(***************************************************************************)

\* text[pos], for 0 <= pos < text.length
CharAt(text, pos) == SubSeq(text, pos + 1, pos + 1)

\* text.slice(from, to), for 0 <= from <= to <= text.length
Slice(text, from, to) == SubSeq(text, from + 1, to)

\* text.startsWith(s, pos)
StartsWithAt(text, s, pos) ==
  /\ pos + Len(s) <= Len(text)
  /\ Slice(text, pos, pos + Len(s)) = s

(***************************************************************************)
(* Character classes of the regular expressions.                           *)
(***************************************************************************)

Digit == {"0", "1", "2", "3", "4", "5", "6", "7", "8", "9"}

Upper ==
  {"A", "B", "C", "D", "E", "F", "G", "H", "I", "J", "K", "L", "M",
   "N", "O", "P", "Q", "R", "S", "T", "U", "V", "W", "X", "Y", "Z"}

Lower ==
  {"a", "b", "c", "d", "e", "f", "g", "h", "i", "j", "k", "l", "m",
   "n", "o", "p", "q", "r", "s", "t", "u", "v", "w", "x", "y", "z"}

\* \w
Word == Upper \cup Lower \cup Digit \cup {"_"}

\* the characters `.` does not match (no s flag); U+2028 and U+2029 are
\* line terminators too and are not characters of any modelled input
LineTerminator == {"\n", "\r"}

\* The backquote cannot be written in a TLA+ string; the form feed, which no
\* modelled input contains and no rule treats specially, stands for it.
Backtick == "\f"

(***************************************************************************)
(* Regular expressions as syntax trees.                                    *)
(***************************************************************************)

Lit(s)         == [t |-> "lit", s |-> s]
In(S)          == [t |-> "cls", neg |-> FALSE, chars |-> S]
NotIn(S)       == [t |-> "cls", neg |-> TRUE, chars |-> S]
Cat(ns)        == [t |-> "cat", ns |-> ns]
Alt(ns)        == [t |-> "alt", ns |-> ns]
Star(n)        == [t |-> "star", greedy |-> TRUE, n |-> n]
LazyStar(n)    == [t |-> "star", greedy |-> FALSE, n |-> n]
Group(k, n)    == [t |-> "group", k |-> k, n |-> n]
BackRef(k)     == [t |-> "backref", k |-> k]
NotAhead(n)    == [t |-> "notahead", n |-> n]
WordBoundary   == [t |-> "wordb"]
Plus(n)        == Cat(<<n, Star(n)>>)
Optional(n)    == Alt(<<n, Cat(<<>>)>>)
Dot            == NotIn(LineTerminator)
AnyChar        == NotIn({})

KeywordWords ==
  << Lit("async"), Lit("await"), Lit("break"), Lit("case"), Lit("catch"),
     Lit("class"), Lit("const"), Lit("continue"), Lit("default"),
     Lit("delete"), Lit("do"), Lit("else"), Lit("enum"), Lit("export"),
     Lit("extends"), Lit("finally"), Lit("for"), Lit("from"),
     Lit("function"), Lit("if"), Lit("implements"), Lit("import"),
     Lit("in"), Lit("instanceof"), Lit("interface"), Lit("let"), Lit("new"),
     Lit("of"), Lit("private"), Lit("protected"), Lit("public"),
     Lit("return"), Lit("static"), Lit("switch"), Lit("throw"), Lit("try"),
     Lit("type"), Lit("typeof"), Lit("var"), Lit("while"), Lit("with"),
     Lit("yield") >>

TypeWords ==
  << Lit("string"), Lit("number"), Lit("boolean"), Lit("void"), Lit("any"),
     Lit("unknown"), Lit("never"), Lit("Record"), Lit("Partial"),
     Lit("Pick"), Lit("Omit"), Lit("Map"), Lit("Set"), Lit("Promise"),
     Lit("Array") >>

LiteralWords ==
  << Lit("true"), Lit("false"), Lit("null"), Lit("undefined"), Lit("this"),
     Lit("super") >>

\* the mutant of CommentRegex without the line comment alternative
CommentRegexBlockOnly ==
  Group(1, Cat(<<Lit("/"), Lit("*"), LazyStar(AnyChar), Lit("*"), Lit("/")>>))

\* (slash star [\s\S]*? star slash | slash slash .*)
CommentRegex ==
  Group(1, Alt(<< Cat(<<Lit("/"), Lit("*"), LazyStar(AnyChar), Lit("*"), Lit("/")>>),
                  Cat(<<Lit("/"), Lit("/"), Star(Dot)>>) >>))

\* the mutant of StringRegex without the closing quote
StringRegexUnclosed ==
  Cat(<< Group(1, In({"\"", "'", Backtick})),
         Star(Alt(<< Cat(<<Lit("\\"), Dot>>),
                     Cat(<<NotAhead(BackRef(1)), NotIn({"\\"})>>) >>)) >>)

\* the mutant of StringRegex without the lookahead: the literal runs to the
\* last quote of its kind
StringRegexToLastQuote ==
  Cat(<< Group(1, In({"\"", "'", Backtick})),
         Star(Alt(<< Cat(<<Lit("\\"), Dot>>), NotIn({"\\"}) >>)),
         BackRef(1) >>)

\* (["' or backtick])(?:\\.|(?!\1)[^\\])*\1
StringRegex ==
  Cat(<< Group(1, In({"\"", "'", Backtick})),
         Star(Alt(<< Cat(<<Lit("\\"), Dot>>),
                     Cat(<<NotAhead(BackRef(1)), NotIn({"\\"})>>) >>)),
         BackRef(1) >>)

\* \b\d+(?:\.\d+)?\b
NumberRegex ==
  Cat(<< WordBoundary, Plus(In(Digit)),
         Optional(Cat(<<Lit("."), Plus(In(Digit))>>)), WordBoundary >>)

\* \b(async|await|...|yield)\b
KeywordRegex == Cat(<<WordBoundary, Group(1, Alt(KeywordWords)), WordBoundary>>)

\* the mutant of TypeRegex without the closing word boundary
TypeRegexOpenEnded == Cat(<<WordBoundary, Group(1, Alt(TypeWords))>>)

\* \b(string|number|...|Array)\b
TypeRegex == Cat(<<WordBoundary, Group(1, Alt(TypeWords)), WordBoundary>>)

\* \b(true|false|null|undefined|this|super)\b
LiteralRegex == Cat(<<WordBoundary, Group(1, Alt(LiteralWords)), WordBoundary>>)

\* @[a-zA-Z_][\w]*
DecoratorRegex ==
  Cat(<<Lit("@"), In(Lower \cup Upper \cup {"_"}), Star(In(Word))>>)

\* \b[A-Z][A-Za-z0-9_]*\b
ClassRegex ==
  Cat(<< WordBoundary, In(Upper),
         Star(In(Upper \cup Lower \cup Digit \cup {"_"})), WordBoundary >>)

\* the mutant of highlightPatterns with the keyword rule listed before the
\* string rule
highlightPatternsKeywordFirst ==
  << [regex |-> CommentRegex,   type |-> "comment"],
     [regex |-> KeywordRegex,   type |-> "keyword"],
     [regex |-> NumberRegex,    type |-> "number"],
     [regex |-> StringRegex,    type |-> "string"],
     [regex |-> TypeRegex,      type |-> "type"],
     [regex |-> LiteralRegex,   type |-> "literal"],
     [regex |-> DecoratorRegex, type |-> "decorator"],
     [regex |-> ClassRegex,     type |-> "class"] >>

highlightPatterns ==
  << [regex |-> CommentRegex,   type |-> "comment"],
     [regex |-> StringRegex,    type |-> "string"],
     [regex |-> NumberRegex,    type |-> "number"],
     [regex |-> KeywordRegex,   type |-> "keyword"],
     [regex |-> TypeRegex,      type |-> "type"],
     [regex |-> LiteralRegex,   type |-> "literal"],
     [regex |-> DecoratorRegex, type |-> "decorator"],
     [regex |-> ClassRegex,     type |-> "class"] >>

(***************************************************************************)
(* The backtracking matcher of RegExp.prototype.exec.  Run(n, text, st)    *)
(* is the sequence of the states in which node n can end when started in   *)
(* state st, in the order in which backtracking tries them; a state is the *)
(* position reached and the texts the groups captured.  The match found    *)
(* is the first one.                                                       *)
(***************************************************************************)

NoCaptures == <<"">>

IsWordChar(text, pos) ==
  /\ 0 <= pos
  /\ pos < Len(text)
  /\ CharAt(text, pos) \in Word

RECURSIVE Run(_, _, _)
RECURSIVE RunEach(_, _, _)
RECURSIVE RunCat(_, _, _, _)
RECURSIVE RunAlt(_, _, _, _)

\* node n continued from every state of sts, in order
RunEach(n, text, sts) ==
  IF sts = <<>> THEN <<>>
  ELSE Run(n, text, Head(sts)) \o RunEach(n, text, Tail(sts))

\* the nodes ns[k], ns[k+1], ... one after the other
RunCat(ns, k, text, sts) ==
  IF k > Len(ns) THEN sts
  ELSE RunCat(ns, k + 1, text, RunEach(ns[k], text, sts))

\* the alternatives ns[k], ns[k+1], ... tried left to right
RunAlt(ns, k, text, st) ==
  IF k > Len(ns) THEN <<>>
  ELSE Run(ns[k], text, st) \o RunAlt(ns, k + 1, text, st)

Run(n, text, st) ==
  CASE n.t = "lit" ->
         IF StartsWithAt(text, n.s, st.pos)
         THEN <<[st EXCEPT !.pos = st.pos + Len(n.s)]>>
         ELSE <<>>
    [] n.t = "cls" ->
         IF st.pos < Len(text) /\ ((CharAt(text, st.pos) \in n.chars) # n.neg)
         THEN <<[st EXCEPT !.pos = st.pos + 1]>>
         ELSE <<>>
    [] n.t = "cat" -> RunCat(n.ns, 1, text, <<st>>)
    [] n.t = "alt" -> RunAlt(n.ns, 1, text, st)
    [] n.t = "star" ->
         \* an iteration that consumes nothing is rejected
         LET once == SelectSeq(Run(n.n, text, st), LAMBDA s : s.pos > st.pos)
             more == RunEach(n, text, once)
         IN  IF n.greedy THEN more \o <<st>> ELSE <<st>> \o more
    [] n.t = "group" ->
         LET inner == Run(n.n, text, st)
         IN  [j \in 1..Len(inner) |->
                [inner[j] EXCEPT !.caps[n.k] = Slice(text, st.pos, inner[j].pos)]]
    [] n.t = "backref" ->
         IF StartsWithAt(text, st.caps[n.k], st.pos)
         THEN <<[st EXCEPT !.pos = st.pos + Len(st.caps[n.k])]>>
         ELSE <<>>
    [] n.t = "notahead" ->
         IF Run(n.n, text, st) = <<>> THEN <<st>> ELSE <<>>
    [] n.t = "wordb" ->
         IF IsWordChar(text, st.pos - 1) # IsWordChar(text, st.pos)
         THEN <<st>>
         ELSE <<>>

NoMatch == [found |-> FALSE, index |-> 0, end |-> 0]

\* regex.exec(text) of a global regex whose lastIndex is from: the leftmost
\* match starting at or after from
RECURSIVE Exec(_, _, _)
Exec(regex, text, from) ==
  IF from > Len(text) THEN NoMatch
  ELSE LET ends == Run(regex, text, [pos |-> from, caps |-> NoCaptures])
       IN  IF ends # <<>>
           THEN [found |-> TRUE, index |-> from, end |-> ends[1].pos]
           ELSE Exec(regex, text, from + 1)

(***************************************************************************)
(* The inputs.  An input is a concatenation of at most MaxTokens tokens of *)
(* one lexicon, or one of the listed scenarios.                            *)
(***************************************************************************)

MaxTokens == 3

\* comments, strings and keywords
LexiconCode == {"//", "/*", "*/", "\"", "\n", "if"}

\* words, numbers and the categories decided by word boundaries
LexiconWords == {"A", "1", ".", "if", "Map"}

\* the characters escapeHtml replaces, in and out of claimed text
LexiconMarkup == {"<", ">", "&", "lt;", "\""}

Lexicons == {LexiconCode, LexiconWords, LexiconMarkup}

RECURSIVE TokenTexts(_, _)
TokenTexts(lexicon, n) ==
  IF n = 0 THEN {""}
  ELSE LET shorter == TokenTexts(lexicon, n - 1)
       IN  shorter \cup {s \o tk : s \in shorter, tk \in lexicon}

Scenarios ==
  { "const x = 1; // done",
    "\"const\"",
    "<script>",
    "MyClass",
    "Record", "Partial", "Pick", "Omit", "Map", "Set", "Promise", "Array",
    "//\"\nif\"",
    "/*\"*/if\"",
    "let s = 'a\\'b' + \"<if>\"; /* x */",
    "a &amp; b &lt; c",
    "a1\"b\"1a",
    "'\\'\"' + \"'\"",
    "@Dec class A { s: Map = \"x\"; n = true ? 1 : 0 } // c" }

Inputs == UNION {TokenTexts(lexicon, MaxTokens) : lexicon \in Lexicons} \cup Scenarios

(***************************************************************************)
(* applyPattern: the scan of one segment and the replacement built from    *)
(* its matches.                                                            *)
(***************************************************************************)

\* the mutant of ResetLastIndex that leaves lastIndex as the scan finds it
ResetLastIndexMissing(value) == value

\* pattern.regex.lastIndex = 0: the value the scan starts from, whatever
\* value the regex held
ResetLastIndex(value) == 0

\* the while loop over pattern.regex.exec(segment.text): the matches pushed,
\* and the regex's lastIndex when the loop ends (exec sets lastIndex to the
\* end of a match, and to 0 when it finds none)
\* the mutant of ExecLoop with an `if` in the place of the `while`: the first
\* match only
ExecLoopFirstOnly(regex, text, from, matches) ==
  LET match == Exec(regex, text, from)
  IN  IF ~match.found
      THEN [matches |-> matches, lastIndex |-> 0]
      ELSE [matches |-> Append(matches, [start |-> match.index,
                                         end   |-> match.end,
                                         text  |-> Slice(text, match.index, match.end)]),
            lastIndex |-> match.end]

RECURSIVE ExecLoop(_, _, _, _)
ExecLoop(regex, text, from, matches) ==
  LET match == Exec(regex, text, from)
  IN  IF ~match.found
      THEN [matches |-> matches, lastIndex |-> 0]
      ELSE ExecLoop(regex, text, match.end,
                    Append(matches, [start |-> match.index,
                                     end   |-> match.end,
                                     text  |-> Slice(text, match.index, match.end)]))

\* the mutant of Replacement that leaves out the text between the matches
ReplacementWithoutGaps(found, seg, type) ==
  [k \in 1..Len(found) |-> [text |-> found[k].text, type |-> type]]

\* matches.forEach(...) from matches[k] on, with the cursor and the
\* replacement built so far, and the push of the rest after it
RECURSIVE Replace(_, _, _, _, _, _)
Replace(matches, k, cursor, replacement, segment, type) ==
  IF k > Len(matches)
  THEN IF cursor < Len(segment.text)
       THEN Append(replacement,
                   [text |-> Slice(segment.text, cursor, Len(segment.text)),
                    type |-> "plain"])
       ELSE replacement
  ELSE LET m == matches[k]
           gap == IF m.start > cursor
                  THEN <<[text |-> Slice(segment.text, cursor, m.start),
                          type |-> "plain"]>>
                  ELSE <<>>
       IN  Replace(matches, k + 1, m.end,
                   (replacement \o gap) \o <<[text |-> m.text, type |-> type]>>,
                   segment, type)

\* Replace without the tests of lines 40 and 47: the text before a match and
\* the text after the last are pushed also when they are empty
RECURSIVE ReplaceAlwaysGap(_, _, _, _, _, _)
ReplaceAlwaysGap(found, k, cursor, replacement, seg, type) ==
  IF k > Len(found)
  THEN Append(replacement,
              [text |-> Slice(seg.text, cursor, Len(seg.text)), type |-> "plain"])
  ELSE ReplaceAlwaysGap(found, k + 1, found[k].end,
                        (replacement
                           \o <<[text |-> Slice(seg.text, cursor, found[k].start),
                                 type |-> "plain"]>>)
                           \o <<[text |-> found[k].text, type |-> type]>>,
                        seg, type)

\* the mutant of Replacement that pushes a match as plain text
ReplacementAllPlain(found, seg, type) ==
  Replace(found, 1, 0, <<>>, seg, "plain")

\* the mutant of Replacement that pushes empty gaps
ReplacementWithEmptyGaps(found, seg, type) ==
  ReplaceAlwaysGap(found, 1, 0, <<>>, seg, type)

Replacement(matches, segment, type) ==
  Replace(matches, 1, 0, <<>>, segment, type)

\* the mutant of Splice that deletes two: splice(at, 2, ...replacement)
SpliceDeletingTwo(segs, at, replacement) ==
  (SubSeq(segs, 1, at) \o replacement) \o SubSeq(segs, at + 3, Len(segs))

\* segments.splice(at, 1, ...replacement), at 0-based
Splice(segs, at, replacement) ==
  (SubSeq(segs, 1, at) \o replacement) \o SubSeq(segs, at + 2, Len(segs))

\* the mutant of Frozen in which the check of line 25 is missing
FrozenNever(seg) == FALSE

\* if (segment.type !== 'plain') continue;
Frozen(seg) == seg.type # "plain"

(***************************************************************************)
(* Rendering.                                                              *)
(***************************************************************************)

\* value.replace(/from/g, to): every occurrence of from, left to right and
\* not overlapping, replaced by to
RECURSIVE ReplaceAll(_, _, _)
ReplaceAll(value, from, to) ==
  LET found == {p \in 0..(Len(value) - Len(from)) : StartsWithAt(value, from, p)}
  IN  IF found = {} THEN value
      ELSE LET first == CHOOSE p \in found : \A q \in found : p <= q
           IN  (Slice(value, 0, first) \o to)
                 \o ReplaceAll(Slice(value, first + Len(from), Len(value)), from, to)

\* the mutant of escapeHtml that leaves > as it is
escapeHtmlWithoutGt(value) ==
  ReplaceAll(ReplaceAll(value, "&", "&amp;"), "<", "&lt;")

\* the mutant of escapeHtml that replaces & last
escapeHtmlAmpLast(value) ==
  ReplaceAll(ReplaceAll(ReplaceAll(value, "<", "&lt;"), ">", "&gt;"), "&", "&amp;")

escapeHtml(value) ==
  ReplaceAll(ReplaceAll(ReplaceAll(value, "&", "&amp;"), "<", "&lt;"), ">", "&gt;")

\* the mutant of RenderSegment without the plain case
RenderSegmentAlwaysSpan(seg) ==
  (("<span class=\"token token-" \o seg.type) \o "\">")
    \o (escapeHtml(seg.text) \o "</span>")

\* the mutant of RenderSegment that never closes the span
RenderSegmentUnclosed(segment) ==
  LET escaped == escapeHtml(segment.text)
  IN  IF segment.type = "plain"
      THEN escaped
      ELSE (("<span class=\"token token-" \o segment.type) \o "\">") \o escaped

\* the callback of segments.map
RenderSegment(segment) ==
  LET escaped == escapeHtml(segment.text)
  IN  IF segment.type = "plain"
      THEN escaped
      ELSE (("<span class=\"token token-" \o segment.type) \o "\">")
             \o (escaped \o "</span>")

\* segments.map(...).join('')
RECURSIVE Join(_, _)
Join(segs, k) ==
  IF k > Len(segs) THEN ""
  ELSE RenderSegment(segs[k]) \o Join(segs, k + 1)

(***************************************************************************)
(* highlightTypeScript as a function of its argument, and the catalog of   *)
(* the page.                                                               *)
(***************************************************************************)

\* applyPattern(pattern) on the working sequence, from index i on
RECURSIVE applyPattern(_, _, _)
applyPattern(rule, segs, at) ==
  IF at >= Len(segs) THEN segs
  ELSE IF Frozen(segs[at + 1]) THEN applyPattern(rule, segs, at + 1)
  ELSE LET scan == ExecLoop(rule.regex, segs[at + 1].text, ResetLastIndex(0), <<>>)
           replacement == Replacement(scan.matches, segs[at + 1], rule.type)
       IN  IF scan.matches = <<>>
           THEN applyPattern(rule, segs, at + 1)
           ELSE applyPattern(rule, Splice(segs, at, replacement),
                             (at + (Len(replacement) - 1)) + 1)

\* highlightPatterns.forEach(applyPattern) from rule k on
RECURSIVE forEach(_, _)
forEach(k, segs) ==
  IF k > Len(highlightPatterns) THEN segs
  ELSE forEach(k + 1, applyPattern(highlightPatterns[k], segs, 0))

\* a call of highlightTypeScript from start to end
highlightTypeScript(source) ==
  Join(forEach(1, <<[text |-> source, type |-> "plain"]>>), 1)

\* the catalog, with short texts in the place of its code: every pattern has
\* a structure and two examples
patterns ==
  << [id |-> "abstract-factory",
      name |-> "Abstract Factory",
      category |-> "Creational",
      description |-> "Provide an interface",
      diagram |-> "Client",
      whenToUse |-> <<"families">>,
      benefits |-> <<"consistency">>,
      downsides |-> <<"more classes">>,
      structure |-> "interface A {}",
      examples  |-> << [title |-> "UI Toolkit", code |-> "new A<B>(1); // ui"],
                       [title |-> "Cloud", code |-> "if (a && b) 'x'"] >>],
     [id |-> "builder",
      name |-> "Builder",
      category |-> "Creational",
      description |-> "Construct step by step",
      diagram |-> "Client --> Director",
      whenToUse |-> <<"many options">>,
      benefits |-> <<"readable">>,
      downsides |-> <<"more code">>,
      structure |-> "class Builder {}",
      examples  |-> << [title |-> "Request", code |-> "const r = \"&lt;\";"],
                       [title |-> "Character", code |-> "@Dec class A {}"] >>] >>

PatternIds == {patterns[k].id : k \in 1..Len(patterns)}

\* ids setActivePattern is called with: the links of the navigation, and the
\* hash of the address when the script starts, which may name no pattern
\* (an empty hash gives patterns[0].id)
CalledIds == PatternIds \cup {"unknown"}

\* patterns.find((item) => item.id === id)
Find(id) ==
  IF id \in PatternIds
  THEN <<patterns[CHOOSE k \in 1..Len(patterns) :
                    /\ patterns[k].id = id
                    /\ \A j \in 1..(k - 1) : patterns[j].id # id]>>
  ELSE <<>>

\* the examples renderExamples shows: the structure first when there is one
ExamplesOf(item) ==
  IF item.structure # ""
  THEN <<[title |-> "Structure Overview", code |-> item.structure]>>
         \o item.examples
  ELSE item.examples

\* the texts the page holds in code elements
Codes ==
  UNION {{ExamplesOf(patterns[k])[j].code :
            j \in 1..Len(ExamplesOf(patterns[k]))} : k \in 1..Len(patterns)}

RuleTypes ==
  [k \in 1..Len(highlightPatterns) |-> highlightPatterns[k].type]

SpanTags ==
  {("<span class=\"token token-" \o RuleTypes[k]) \o "\">" :
     k \in 1..Len(highlightPatterns)} \cup {"</span>"}

\* html without its span tags; a < that opens no span tag is kept, with the
\* text up to the next <
RECURSIVE WithoutTags(_)
WithoutTags(html) ==
  IF html = "" THEN ""
  ELSE LET tags == {tag \in SpanTags : StartsWithAt(html, tag, 0)}
       IN  IF tags # {}
           THEN WithoutTags(Slice(html, Len(CHOOSE tag \in tags : TRUE), Len(html)))
           ELSE LET later == {p \in 1..(Len(html) - 1) : CharAt(html, p) = "<"}
                    next == IF later = {} THEN Len(html)
                            ELSE CHOOSE p \in later : \A q \in later : p <= q
                IN  Slice(html, 0, next) \o WithoutTags(Slice(html, next, Len(html)))

\* the reverse substitutions: &lt; to <, &gt; to >, then &amp; to &
unescapeHtml(value) ==
  ReplaceAll(ReplaceAll(ReplaceAll(value, "&lt;", "<"), "&gt;", ">"), "&amp;", "&")

\* element.textContent of an element whose markup is html: the tags are
\* left out and the character references read
TextContent(html) == unescapeHtml(WithoutTags(html))

\* highlightTypeScript on each of them
Tokenized == [source \in Codes |-> highlightTypeScript(source)]

(***************************************************************************)
(* The state of a call of highlightTypeScript.                             *)
(***************************************************************************)

VARIABLES
  pc,          \* "idle", "apply" (in applyPattern), "exec" (in its while loop), "done"
  code,        \* the argument
  segments,    \* the working sequence
  patternNo,   \* the rule forEach is applying, 1 for highlightPatterns[0]
  i,           \* the loop index of applyPattern
  lastIndex,   \* lastIndex of each rule's regex, an object shared by all calls
  result,      \* the value returned
  earlier,     \* an observer's note of a call that returned: <<>> or
               \* <<[code, result]>>
  matches,     \* the matches array of applyPattern, when the exec loop is
               \* followed call by call
  ruleSet,     \* the rule table forEach runs over, an index of RuleSets
  memo,        \* what highlightTypeScript returns for each text of the
               \* catalog, evaluated once
  memoText,    \* the textContent of a code element for each of these
               \* values as its innerHTML, evaluated once
  page,        \* what setActivePattern writes outside the examples: the
               \* nav item with nav-item--active, the title, the category,
               \* the summary, the benefits, and the hash of the address
  lastId,      \* the argument of the last call of setActivePattern, "none"
               \* before the first
  shown,       \* the id of the pattern whose examples are on the page, ""
               \* before the first
  renderNo,    \* how many times renderExamples has run
  tabs,        \* the tab buttons: tab-button--active and aria-selected
  panels,      \* the tab panels: tab-panel--active
  blocks,      \* the code element of each panel: textContent, innerHTML,
               \* dataset.highlighted, and how often it was tokenized
  copyText,    \* the text of the copy button of each panel
  timers,      \* the pending setTimeout callbacks of each copy button
  lastRoot     \* the code elements under the root of the last call of
               \* highlightSnippets on the elements of the page

\* the page
elements == <<shown, renderNo, tabs, panels, blocks, copyText, timers, lastRoot>>
dom == <<page, lastId, elements>>

\* what the steps of highlightTypeScript leave as it is when the scan of a
\* segment is one step
aux == <<earlier, matches, ruleSet, memo, memoText, dom>>

vars == <<pc, code, segments, patternNo, i, lastIndex, result, aux>>

\* a table of two rules that match one character or more
RulesWordsDigits ==
  << [regex |-> Plus(In(Lower)), type |-> "keyword"],
     [regex |-> Plus(In(Digit)), type |-> "number"] >>

\* /\d*/g, which matches no character where no digit stands
RulesDigitsStar == << [regex |-> Star(In(Digit)), type |-> "number"] >>

\* /(if)?/g after a rule for digits
RulesOptionalIf ==
  << [regex |-> Plus(In(Digit)), type |-> "number"],
     [regex |-> Optional(Lit("if")), type |-> "keyword"] >>

\* the tables highlightTypeScript is run with: highlightPatterns, the table of
\* the script, is the first
RuleSets ==
  <<highlightPatterns, RulesWordsDigits, RulesDigitsStar, RulesOptionalIf>>

Rules == RuleSets[ruleSet]

pattern == Rules[patternNo]
segment == segments[i + 1]

Idle ==
  /\ pc = "idle"
  /\ code = ""
  /\ segments = <<>>
  /\ patternNo = 1
  /\ i = 0
  /\ lastIndex = [k \in 1..Len(highlightPatterns) |-> 0]
  /\ result = ""
  /\ earlier = <<>>
  /\ matches = <<>>
  /\ memo = Tokenized
  /\ memoText = [html \in {memo[source] : source \in Codes} |-> TextContent(html)]
  /\ page = [active |-> "", title |-> "", category |-> "", summary |-> <<>>,
             benefits |-> <<>>, hash |-> ""]
  /\ lastId = "none"
  /\ shown = ""
  /\ renderNo = 0
  /\ tabs = <<>>
  /\ panels = <<>>
  /\ blocks = <<>>
  /\ copyText = <<>>
  /\ timers = <<>>
  /\ lastRoot = {}

\* the script: forEach runs over highlightPatterns
Init ==
  /\ Idle
  /\ ruleSet = 1

\* highlightTypeScript(code) is called; forEach enters applyPattern for the
\* first rule
Call(c) ==
  /\ pc = "idle"
  /\ pc' = "apply"
  /\ code' = c
  /\ segments' = <<[text |-> c, type |-> "plain"]>>
  /\ patternNo' = 1
  /\ i' = 0
  /\ result' = ""
  /\ UNCHANGED <<lastIndex, aux>>

\* one iteration of the for loop on a segment that is not plain
SkipClaimed ==
  /\ pc = "apply"
  /\ i < Len(segments)
  /\ Frozen(segment)
  /\ i' = i + 1
  /\ UNCHANGED <<pc, code, segments, patternNo, lastIndex, result, aux>>

\* the mutant of ScanPlain without `if (!matches.length) continue;`
ScanPlainAlwaysSplice ==
  /\ pc = "apply"
  /\ i < Len(segments)
  /\ ~Frozen(segment)
  /\ LET scan == ExecLoop(pattern.regex, segment.text,
                          ResetLastIndex(lastIndex[patternNo]), <<>>)
         replacement == Replacement(scan.matches, segment, pattern.type)
     IN  /\ lastIndex' = [lastIndex EXCEPT ![patternNo] = scan.lastIndex]
         /\ segments' = Splice(segments, i, replacement)
         /\ i' = (i + (Len(replacement) - 1)) + 1
  /\ UNCHANGED <<pc, code, patternNo, result, aux>>

\* one iteration on a plain segment: pattern.regex.lastIndex = 0 and the exec
\* loop, then `continue` when nothing matched, and the splice otherwise
ScanPlain ==
  /\ pc = "apply"
  /\ i < Len(segments)
  /\ ~Frozen(segment)
  /\ LET scan == ExecLoop(pattern.regex, segment.text,
                          ResetLastIndex(lastIndex[patternNo]), <<>>)
         replacement == Replacement(scan.matches, segment, pattern.type)
     IN  /\ lastIndex' = [lastIndex EXCEPT ![patternNo] = scan.lastIndex]
         /\ IF scan.matches = <<>>
            THEN /\ i' = i + 1
                 /\ UNCHANGED segments
            ELSE /\ segments' = Splice(segments, i, replacement)
                 /\ i' = (i + (Len(replacement) - 1)) + 1
  /\ UNCHANGED <<pc, code, patternNo, result, aux>>

\* applyPattern returns and forEach calls it for the next rule
NextPattern ==
  /\ pc = "apply"
  /\ i >= Len(segments)
  /\ patternNo < Len(Rules)
  /\ patternNo' = patternNo + 1
  /\ i' = 0
  /\ UNCHANGED <<pc, code, segments, lastIndex, result, aux>>

\* forEach is over: the segments are rendered and joined
Render ==
  /\ pc = "apply"
  /\ i >= Len(segments)
  /\ patternNo = Len(Rules)
  /\ result' = Join(segments, 1)
  /\ pc' = "done"
  /\ UNCHANGED <<code, segments, patternNo, i, lastIndex, aux>>

\* the call returns; its locals are gone
Return ==
  /\ pc = "done"
  /\ pc' = "idle"
  /\ code' = ""
  /\ segments' = <<>>
  /\ patternNo' = 1
  /\ i' = 0
  /\ result' = ""
  /\ UNCHANGED <<lastIndex, aux>>

Next ==
  \/ \E c \in Inputs : Call(c)
  \/ SkipClaimed
  \/ ScanPlain
  \/ NextPattern
  \/ Render
  \/ Return

Spec == Init /\ [][Next]_vars

(***************************************************************************)
(* Calls that share the regex objects with other users.  The regexes of    *)
(* highlightPatterns are objects of the script: a call finds in lastIndex  *)
(* whatever their last user left there.  An observer notes the value a     *)
(* call returned, to compare it with the value of a later call.            *)
(***************************************************************************)

MaxLastIndex == 2

\* keywords and numbers, so that a rule matches at the start of a segment
LexiconShared == {"if", "1 "}

SharedInputs == TokenTexts(LexiconShared, MaxTokens)

\* between two calls the regexes are left with lastIndex at value
OtherUse(value) ==
  /\ pc = "idle"
  /\ lastIndex' = [k \in 1..Len(highlightPatterns) |-> value]
  /\ UNCHANGED <<pc, code, segments, patternNo, i, result, aux>>

\* the caller keeps the value returned
Remember ==
  /\ pc = "done"
  /\ earlier' = <<[code |-> code, result |-> result]>>
  /\ UNCHANGED <<pc, code, segments, patternNo, i, lastIndex, result,
                  matches, ruleSet, memo, memoText, dom>>

NextShared ==
  \/ \E value \in 0..MaxLastIndex : OtherUse(value)
  \/ \E c \in SharedInputs : Call(c)
  \/ SkipClaimed
  \/ ScanPlain
  \/ NextPattern
  \/ Render
  \/ Remember
  \/ Return

SpecShared == Init /\ [][NextShared]_vars

(***************************************************************************)
(* The scan of a segment followed one exec call at a time, for the table   *)
(* of the script and for other tables.                                     *)
(***************************************************************************)

\* digits, a keyword, a separator and a quote
LexiconExec == {"1", "if", " ", "\""}

ExecInputs == TokenTexts(LexiconExec, MaxTokens) \cup Scenarios

InitExec ==
  /\ Idle
  /\ ruleSet \in 1..Len(RuleSets)

\* a plain segment is met: const matches = [] and pattern.regex.lastIndex = 0
ScanStart ==
  /\ pc = "apply"
  /\ i < Len(segments)
  /\ ~Frozen(segment)
  /\ pc' = "exec"
  /\ matches' = <<>>
  /\ lastIndex' = [lastIndex EXCEPT ![patternNo] = ResetLastIndex(@)]
  /\ UNCHANGED <<code, segments, patternNo, i, result, earlier, ruleSet, memo, memoText, dom>>

\* the mutant of ExecMatch for an `if` in the place of the `while`: the first
\* match is spliced in at once, and lastIndex stays at its end
ExecMatchOnce ==
  /\ pc = "exec"
  /\ LET match == Exec(pattern.regex, segment.text, lastIndex[patternNo])
         found == <<[start |-> match.index,
                     end   |-> match.end,
                     text  |-> Slice(segment.text, match.index, match.end)]>>
         replacement == Replacement(found, segment, pattern.type)
     IN  /\ match.found
         /\ lastIndex' = [lastIndex EXCEPT ![patternNo] = match.end]
         /\ segments' = Splice(segments, i, replacement)
         /\ i' = (i + (Len(replacement) - 1)) + 1
  /\ pc' = "apply"
  /\ matches' = <<>>
  /\ UNCHANGED <<code, patternNo, result, earlier, ruleSet, memo, memoText, dom>>

\* the mutant of ExecMatch for a regex without the g flag: exec leaves
\* lastIndex as it is
ExecMatchNotGlobal ==
  /\ pc = "exec"
  /\ Len(matches) <= Len(segment.text)
  /\ LET match == Exec(pattern.regex, segment.text, lastIndex[patternNo])
     IN  /\ match.found
         /\ matches' = Append(matches,
                              [start |-> match.index,
                               end   |-> match.end,
                               text  |-> Slice(segment.text, match.index, match.end)])
  /\ UNCHANGED <<pc, code, segments, patternNo, i, lastIndex, result, earlier,
                  ruleSet, memo, memoText, dom>>

\* pattern.regex.exec(segment.text) returns a match: exec has set lastIndex
\* to its end, and the body of the while loop pushes it.  The loop is
\* followed until matches holds more matches than the text has characters.
ExecMatch ==
  /\ pc = "exec"
  /\ Len(matches) <= Len(segment.text)
  /\ LET match == Exec(pattern.regex, segment.text, lastIndex[patternNo])
     IN  /\ match.found
         /\ lastIndex' = [lastIndex EXCEPT ![patternNo] = match.end]
         /\ matches' = Append(matches,
                              [start |-> match.index,
                               end   |-> match.end,
                               text  |-> Slice(segment.text, match.index, match.end)])
  /\ UNCHANGED <<pc, code, segments, patternNo, i, result, earlier, ruleSet,
                  memo, memoText, dom>>

\* the mutant of ExecNull without `i += replacement.length - 1`
ExecNullWithoutAdjust ==
  /\ pc = "exec"
  /\ ~Exec(pattern.regex, segment.text, lastIndex[patternNo]).found
  /\ lastIndex' = [lastIndex EXCEPT ![patternNo] = 0]
  /\ pc' = "apply"
  /\ matches' = <<>>
  /\ i' = i + 1
  /\ IF matches = <<>>
     THEN UNCHANGED segments
     ELSE segments' = Splice(segments, i,
                             Replacement(matches, segment, pattern.type))
  /\ UNCHANGED <<code, patternNo, result, earlier, ruleSet, memo, memoText, dom>>

\* exec returns null and has set lastIndex to 0: the while loop ends, then
\* `continue` when nothing matched, and the splice otherwise
ExecNull ==
  /\ pc = "exec"
  /\ ~Exec(pattern.regex, segment.text, lastIndex[patternNo]).found
  /\ lastIndex' = [lastIndex EXCEPT ![patternNo] = 0]
  /\ pc' = "apply"
  /\ matches' = <<>>
  /\ LET replacement == Replacement(matches, segment, pattern.type)
     IN  IF matches = <<>>
         THEN /\ i' = i + 1
              /\ UNCHANGED segments
         ELSE /\ segments' = Splice(segments, i, replacement)
              /\ i' = (i + (Len(replacement) - 1)) + 1
  /\ UNCHANGED <<code, patternNo, result, earlier, ruleSet, memo, memoText, dom>>

NextExec ==
  \/ \E c \in ExecInputs : Call(c)
  \/ SkipClaimed
  \/ ScanStart
  \/ ExecMatch
  \/ ExecNull
  \/ NextPattern
  \/ Render
  \/ Return

SpecExec == InitExec /\ [][NextExec]_vars

(***************************************************************************)
(* Positions of the segments in the input.                                 *)
(***************************************************************************)

RECURSIVE JoinTexts(_)
JoinTexts(segs) ==
  IF segs = <<>> THEN "" ELSE Head(segs).text \o JoinTexts(Tail(segs))

\* the offset at which segs[j] starts and ends when the texts are laid end
\* to end
StartOf(segs, j) == Len(JoinTexts(SubSeq(segs, 1, j - 1)))
EndOf(segs, j)   == StartOf(segs, j) + Len(segs[j].text)

\* the spans of segs that a rule has claimed
Claimed(segs) ==
  { [start |-> StartOf(segs, j), text |-> segs[j].text, type |-> segs[j].type] :
      j \in {k \in 1..Len(segs) : segs[k].type # "plain"} }

\* the span [start, end) lies in a plain segment of segs
InPlain(segs, start, end) ==
  \E j \in 1..Len(segs) :
    /\ segs[j].type = "plain"
    /\ StartOf(segs, j) <= start
    /\ end <= EndOf(segs, j)

\* a step inside one call of highlightTypeScript
InCall == pc = "apply" /\ pc' \in {"apply", "done"}

(***************************************************************************)
(* The claims.                                                             *)
(***************************************************************************)

\* C1: at every point of highlightTypeScript (initially, after every splice
\* and after the last rule) the texts of the working segments, concatenated
\* in order, are the input exactly.
Coverage == pc \in {"apply", "done"} => JoinTexts(segments) = code

\* a call in which three rules have spliced
CoverageWitness ==
  /\ pc = "done"
  /\ Len(segments) >= 5
  /\ Cardinality({segments[j].type : j \in 1..Len(segments)}) >= 4

\* C2: a segment that is not plain is frozen: every step of a later rule
\* keeps it with the same text, the same category and at the same place, and
\* whatever a step newly claims lies in text that was plain before the step.
NoNesting ==
  [][InCall =>
       /\ Claimed(segments) \subseteq Claimed(segments')
       /\ \A c \in Claimed(segments') \ Claimed(segments) :
            InPlain(segments, c.start, c.start + Len(c.text))]_vars

\* a later rule has claimed text next to a segment an earlier rule froze
NoNestingWitness ==
  /\ pc = "apply"
  /\ \E j \in 1..Len(segments) : \E k \in 1..Len(segments) :
       /\ segments[j].type = "string"
       /\ segments[k].type = "keyword"

\* the segment segs[j] lies in the span [start, end)
SegmentIn(segs, j, start, end) ==
  /\ start <= StartOf(segs, j)
  /\ EndOf(segs, j) <= end

\* the spans the string rule's pattern matches when the whole of text is
\* scanned left to right
StringScans(text) ==
  LET ms == ExecLoop(StringRegex, text, 0, <<>>).matches
  IN  {[start |-> ms[k].start, end |-> ms[k].end] : k \in 1..Len(ms)}

\* the spans the string rule's pattern matches when the text that the comment
\* rule leaves plain is scanned, piece by piece
StringClaims(text) ==
  LET whole    == [text |-> text, type |-> "plain"]
      comments == ExecLoop(CommentRegex, text, 0, <<>>).matches
      pieces   == IF comments = <<>> THEN <<whole>>
                  ELSE Replacement(comments, whole, "comment")
  IN  UNION { { [start |-> StartOf(pieces, j) + m.start,
                 end   |-> StartOf(pieces, j) + m.end] :
                  m \in StringScans(pieces[j].text) } :
              j \in {k \in 1..Len(pieces) : pieces[k].type = "plain"} }

\* C3 as stated: no keyword segment of the output lies in a span that the
\* string rule's pattern matches when the whole original input is scanned.
\* Refuted: a quote inside a comment opens such a span, and the keyword after
\* the comment is highlighted.
KeywordOutsideScannedStrings ==
  pc = "done" =>
    \A m \in StringScans(code) : \A j \in 1..Len(segments) :
      segments[j].type = "keyword" => ~SegmentIn(segments, j, m.start, m.end)

\* C3 as amended: no keyword segment of the output lies in a span that the
\* string rule's pattern matches when the text the comment rule left plain is
\* scanned, that is in a span the string rule claims.
KeywordOutsideClaimedStrings ==
  pc = "done" =>
    \A m \in StringClaims(code) : \A j \in 1..Len(segments) :
      segments[j].type = "keyword" => ~SegmentIn(segments, j, m.start, m.end)

\* the string rule has claimed a span in which the keyword pattern matches
KeywordInStringWitness ==
  /\ pc = "done"
  /\ \E m \in StringClaims(code) :
       Exec(KeywordRegex, Slice(code, m.start + 1, m.end - 1), 0).found

PriorityOrder ==
  <<"comment", "string", "number", "keyword",
    "type", "literal", "decorator", "class">>

\* C4: the rules are applied in the order comment, string, number, keyword,
\* type, literal, decorator, class, each once: within a call the rule in
\* application only moves to the next one, only when the loop over the
\* segments is over, and the call ends after the last one; a step claims text
\* only for the rule in application and only inside text that was plain.
RuleOrder ==
  [][/\ pc = "idle" /\ pc' = "apply" => patternNo' = 1 /\ i' = 0
     /\ InCall =>
          /\ patternNo' \in {patternNo, patternNo + 1}
          /\ patternNo' = patternNo + 1 =>
               /\ i >= Len(segments)
               /\ i' = 0
               /\ segments' = segments
          /\ pc' = "done" =>
               /\ patternNo = Len(PriorityOrder)
               /\ i >= Len(segments)
          /\ \A c \in Claimed(segments') \ Claimed(segments) :
               /\ c.type = PriorityOrder[patternNo]
               /\ InPlain(segments, c.start, c.start + Len(c.text))
          /\ \A c \in Claimed(segments) :
               \E k \in 1..patternNo : c.type = PriorityOrder[k]]_vars

\* the last rule claims text that the seven rules before it left plain
RuleOrderWitness ==
  /\ pc = "apply"
  /\ patternNo = Len(highlightPatterns)
  /\ i = Len(segments)
  /\ \A k \in 1..Len(PriorityOrder) :
       \E j \in 1..Len(segments) : segments[j].type = PriorityOrder[k]

\* C5: the input `const x = 1; // done` ends as keyword("const"),
\* plain(" x = "), number("1"), plain("; "), comment("// done").
ScenarioConst ==
  pc = "done" /\ code = "const x = 1; // done" =>
    segments = << [text |-> "const",   type |-> "keyword"],
                  [text |-> " x = ",   type |-> "plain"],
                  [text |-> "1",       type |-> "number"],
                  [text |-> "; ",      type |-> "plain"],
                  [text |-> "// done", type |-> "comment"] >>

ScenarioConstWitness ==
  /\ pc = "done"
  /\ code = "const x = 1; // done"
  /\ Len(segments) = 5

\* C6: the input "const" between double quotes ends as one string segment
\* covering the whole quoted text, and no keyword segment is produced.
ScenarioQuotedKeyword ==
  code = "\"const\"" =>
    /\ \A j \in 1..Len(segments) : segments[j].type # "keyword"
    /\ pc = "done" => segments = <<[text |-> "\"const\"", type |-> "string"]>>

ScenarioQuotedKeywordWitness ==
  /\ pc = "done"
  /\ code = "\"const\""
  /\ segments[1].type = "string"

\* text is one capitalized identifier: [A-Z][A-Za-z0-9_]* and nothing else
IsCapitalizedIdentifier(text) ==
  /\ Len(text) >= 1
  /\ CharAt(text, 0) \in Upper
  /\ \A p \in 1..(Len(text) - 1) :
       CharAt(text, p) \in Upper \cup Lower \cup Digit \cup {"_"}

TypeNames ==
  {"Record", "Partial", "Pick", "Omit", "Map", "Set", "Promise", "Array"}

\* C7: an input that is one capitalized identifier ends as a single segment:
\* of category type when it is one of the type names, which the type rule
\* claims first, and of category class otherwise.
CapitalizedIdentifier ==
  pc = "done" /\ IsCapitalizedIdentifier(code) =>
    segments = <<[text |-> code,
                  type |-> IF code \in TypeNames THEN "type" ELSE "class"]>>

\* an identifier that only starts with a type name is a class
CapitalizedIdentifierWitness ==
  /\ pc = "done"
  /\ code = "MapA"
  /\ segments = <<[text |-> "MapA", type |-> "class"]>>

\* the character-by-character escaping of a text
RECURSIVE Entities(_)
Entities(text) ==
  IF text = "" THEN ""
  ELSE LET c == CharAt(text, 0)
       IN  (CASE c = "&" -> "&amp;"
              [] c = "<" -> "&lt;"
              [] c = ">" -> "&gt;"
              [] OTHER   -> c) \o Entities(Slice(text, 1, Len(text)))

\* C8: in the rendered output every <, > and & of the input appears as
\* &lt;, &gt; and &amp;, whatever the category of its segment, and the only
\* raw < and > are those of the generated span tags.
MarkupSafety ==
  pc = "done" =>
    /\ WithoutTags(result) = Entities(code)
    /\ code = "<script>" => result = "&lt;script&gt;"

\* a claimed segment that holds < and >
MarkupSafetyWitness ==
  /\ pc = "done"
  /\ \E j \in 1..Len(segments) :
       segments[j] = [text |-> "\"<if>\"", type |-> "string"]

\* C9: for the empty input the single empty plain segment is never split, and
\* the value returned is the empty string.
EmptyInput ==
  code = "" /\ pc \in {"apply", "done"} =>
    /\ segments = <<[text |-> "", type |-> "plain"]>>
    /\ pc = "done" => result = ""

EmptyInputWitness ==
  /\ pc = "done"
  /\ code = ""
  /\ result = ""

\* C10: escapeHtml followed by the reverse substitutions gives back the text
\* of every segment that is rendered, also of one that holds &lt;, &gt; or
\* &amp; already.
EscapeRoundTrip ==
  pc = "done" =>
    \A j \in 1..Len(segments) :
      unescapeHtml(escapeHtml(segments[j].text)) = segments[j].text

\* a segment text that holds an entity and a raw character
EscapeRoundTripWitness ==
  /\ pc = "done"
  /\ code = "&lt;<"
  /\ escapeHtml(segments[1].text) = "&amp;lt;&lt;"

(***************************************************************************)
(* The page: setActivePattern, renderExamples with its activateTab and     *)
(* copy handlers, and highlightSnippets.                                   *)
(***************************************************************************)

\* element.textContent = text: the markup that shows text
MarkupOf(text) == Entities(text)

\* the mutant of highlightSnippets that stops after the first code element
\* under root
highlightSnippetsFirstOnly(bs, r) ==
  [k \in 1..Len(bs) |->
     IF k \in r /\ (\A j \in r : k <= j) /\ bs[k].highlighted # "true"
     THEN [bs[k] EXCEPT !.innerHTML = memo[bs[k].textContent],
                        !.textContent = memoText[memo[bs[k].textContent]],
                        !.highlighted = "true",
                        !.tokenized = @ + 1]
     ELSE bs[k]]

\* the mutant of highlightSnippets that does not look at the flag
highlightSnippetsUnguarded(bs, root) ==
  [k \in 1..Len(bs) |->
     IF k \in root
     THEN [bs[k] EXCEPT !.innerHTML = memo[bs[k].textContent],
                        !.textContent = memoText[memo[bs[k].textContent]],
                        !.highlighted = "true",
                        !.tokenized = @ + 1]
     ELSE bs[k]]

\* highlightSnippets(root) on the code elements bs, those under root being
\* the ones of number k in root
highlightSnippets(bs, root) ==
  [k \in 1..Len(bs) |->
     IF k \in root /\ bs[k].highlighted # "true"
     THEN [bs[k] EXCEPT !.innerHTML = memo[bs[k].textContent],
                        !.textContent = memoText[memo[bs[k].textContent]],
                        !.highlighted = "true",
                        !.tokenized = @ + 1]
     ELSE bs[k]]

\* the mutant of RenderRoot that holds the code element of the first panel
\* only
RenderRootActiveOnly(n) == {1}

\* the code elements under examplesEl.querySelector('.tab-panels'), the root
\* renderExamples passes to highlightSnippets: those of all n panels
RenderRoot(n) == 1..n

tokenizer ==
  <<pc, code, segments, patternNo, i, lastIndex, result, earlier, matches,
    ruleSet, memo, memoText>>

MaxRenders == 3
MaxTimers == 2

\* what setActivePattern writes outside the examples for a pattern: the
\* class of the nav items, titleEl, categoryEl, the texts put into the
\* markup of summaryEl and of benefitsEl, and the hash
Header(item) ==
  [active   |-> item.id,
   title    |-> item.name,
   category |-> item.category \o " Pattern",
   summary  |-> <<item.description, item.whenToUse, item.diagram>>,
   benefits |-> <<item.benefits, item.downsides>>,
   hash     |-> "#" \o item.id]

\* setActivePattern after its first two lines, for the pattern found: it
\* ends with renderExamples(pattern), where the tabs, panels and code
\* elements are made anew and highlightSnippets(panels) runs on all of them
ShowPattern(item) ==
  LET examples == ExamplesOf(item)
      made == [k \in 1..Len(examples) |->
                 [textContent |-> examples[k].code,
                  innerHTML   |-> MarkupOf(examples[k].code),
                  highlighted |-> "undefined",
                  tokenized   |-> 0]]
  IN  /\ page' = Header(item)
      /\ shown' = item.id
      /\ renderNo' = renderNo + 1
      /\ tabs' = [k \in 1..Len(examples) |->
                    [active   |-> k = 1,
                     selected |-> IF k = 1 THEN "true" ELSE "false"]]
      /\ panels' = [k \in 1..Len(examples) |-> k = 1]
      /\ blocks' = highlightSnippets(made, RenderRoot(Len(made)))
      /\ copyText' = [k \in 1..Len(examples) |-> "Copy code"]
      /\ timers' = [k \in 1..Len(examples) |-> 0]
      /\ lastRoot' = RenderRoot(Len(made))

\* the mutant of SetActivePattern without `if (!pattern) return`: the class
\* is taken from every nav item before pattern.name throws
SetActivePatternUnguarded(id) ==
  /\ renderNo < MaxRenders
  /\ lastId' = id
  /\ UNCHANGED tokenizer
  /\ IF Find(id) = <<>>
     THEN /\ page' = [page EXCEPT !.active = ""]
          /\ UNCHANGED elements
     ELSE ShowPattern(Find(id)[1])

\* setActivePattern(id)
SetActivePattern(id) ==
  /\ renderNo < MaxRenders
  /\ lastId' = id
  /\ UNCHANGED tokenizer
  /\ IF Find(id) = <<>>
     THEN UNCHANGED <<page, elements>>
     ELSE ShowPattern(Find(id)[1])

\* the mutant of ActivateTab that adds the class and the attribute to the
\* clicked tab and its panel without taking them from the others
ActivateTabAddOnly(index) ==
  /\ index < Len(tabs)
  /\ tabs' = [k \in 1..Len(tabs) |->
                IF k - 1 = index THEN [active |-> TRUE, selected |-> "true"]
                ELSE tabs[k]]
  /\ panels' = [k \in 1..Len(panels) |-> panels[k] \/ k - 1 = index]
  /\ blocks' = highlightSnippets(blocks, {index + 1})
  /\ lastRoot' = {index + 1}
  /\ UNCHANGED <<page, lastId, shown, renderNo, copyText, timers, tokenizer>>

\* a click on the tab of number index: activateTab(index)
ActivateTab(index) ==
  /\ index < Len(tabs)
  /\ tabs' = [k \in 1..Len(tabs) |->
                [active   |-> k - 1 = index,
                 selected |-> IF k - 1 = index THEN "true" ELSE "false"]]
  /\ panels' = [k \in 1..Len(panels) |-> k - 1 = index]
  /\ blocks' = highlightSnippets(blocks, {index + 1})
  /\ lastRoot' = {index + 1}
  /\ UNCHANGED <<page, lastId, shown, renderNo, copyText, timers, tokenizer>>

\* a click on a copy button whose clipboard write succeeds: the text changes
\* and a timer is set
CopySucceeds(k) ==
  /\ k \in 1..Len(copyText)
  /\ timers[k] < MaxTimers
  /\ copyText' = [copyText EXCEPT ![k] = "Copied!"]
  /\ timers' = [timers EXCEPT ![k] = @ + 1]
  /\ UNCHANGED <<page, lastId, shown, renderNo, tabs, panels, blocks, lastRoot, tokenizer>>

\* a click on a copy button whose clipboard write fails
CopyFails(k) ==
  /\ k \in 1..Len(copyText)
  /\ copyText' = [copyText EXCEPT ![k] = "Press Ctrl+C"]
  /\ UNCHANGED <<page, lastId, shown, renderNo, tabs, panels, blocks, timers, lastRoot, tokenizer>>

\* a timer of a copy button fires
TimerFires(k) ==
  /\ k \in 1..Len(copyText)
  /\ timers[k] > 0
  /\ copyText' = [copyText EXCEPT ![k] = "Copy code"]
  /\ timers' = [timers EXCEPT ![k] = @ - 1]
  /\ UNCHANGED <<page, lastId, shown, renderNo, tabs, panels, blocks, lastRoot, tokenizer>>

NextDom ==
  \/ \E id \in CalledIds : SetActivePattern(id)
  \/ \E index \in 0..(Len(tabs) - 1) : ActivateTab(index)
  \/ \E k \in 1..Len(copyText) : CopySucceeds(k)
  \/ \E k \in 1..Len(copyText) : CopyFails(k)
  \/ \E k \in 1..Len(copyText) : TimerFires(k)

SpecDom == Init /\ [][NextDom]_vars

(***************************************************************************)
(* highlightSnippets as an operation of its own: the elements of the page  *)
(* as renderExamples has built them when it reaches line 3154, and calls   *)
(* of highlightSnippets on any root, in any number, with clicks on tabs    *)
(* between them.                                                           *)
(***************************************************************************)

\* setActivePattern(id) up to the call of highlightSnippets in
\* renderExamples: the tabs, the panels and the code elements are built, no
\* code element has a flag
RenderExamplesBuild(id) ==
  /\ renderNo < MaxRenders
  /\ Find(id) # <<>>
  /\ LET examples == ExamplesOf(Find(id)[1])
     IN  /\ page' = [Header(Find(id)[1]) EXCEPT !.hash = page.hash]
         /\ lastId' = id
         /\ shown' = id
         /\ renderNo' = renderNo + 1
         /\ tabs' = [k \in 1..Len(examples) |->
                       [active   |-> k = 1,
                        selected |-> IF k = 1 THEN "true" ELSE "false"]]
         /\ panels' = [k \in 1..Len(examples) |-> k = 1]
         /\ blocks' = [k \in 1..Len(examples) |->
                         [textContent |-> examples[k].code,
                          innerHTML   |-> MarkupOf(examples[k].code),
                          highlighted |-> "undefined",
                          tokenized   |-> 0]]
         /\ copyText' = [k \in 1..Len(examples) |-> "Copy code"]
         /\ timers' = [k \in 1..Len(examples) |-> 0]
         /\ lastRoot' = {}
         /\ UNCHANGED tokenizer

\* a call highlightSnippets(root), the code elements under root being those
\* of number k in r
HighlightSnippets(r) ==
  /\ blocks # <<>>
  /\ blocks' = highlightSnippets(blocks, r)
  /\ lastRoot' = r
  /\ UNCHANGED <<page, lastId, shown, renderNo, tabs, panels, copyText, timers, tokenizer>>

NextSnippets ==
  \/ \E id \in PatternIds : RenderExamplesBuild(id)
  \/ \E r \in SUBSET (1..Len(blocks)) : HighlightSnippets(r)
  \/ \E index \in 0..(Len(tabs) - 1) : ActivateTab(index)

SpecSnippets == Init /\ [][NextSnippets]_vars

\* the closed set of categories a span can show
Categories ==
  {"comment", "string", "number", "keyword", "type", "literal", "decorator",
   "class"}

OpenTag(type) == ("<span class=\"token token-" \o type) \o "\">"

\* html read from left to right: the spans met, each with its category and
\* its escaped content, and whether every span was closed before the next one
\* opened; open is the category of the span being read, "" outside a span
RECURSIVE ParseSpans(_, _, _, _)
ParseSpans(html, open, content, spans) ==
  IF html = "" THEN [ok |-> open = "", spans |-> spans]
  ELSE IF StartsWithAt(html, "</span>", 0)
  THEN IF open = "" THEN [ok |-> FALSE, spans |-> spans]
       ELSE ParseSpans(Slice(html, Len("</span>"), Len(html)), "", "",
                       Append(spans, [text |-> content, type |-> open]))
  ELSE LET opened == {c \in Categories : StartsWithAt(html, OpenTag(c), 0)}
       IN  IF opened # {}
           THEN IF open # "" THEN [ok |-> FALSE, spans |-> spans]
                ELSE LET c == CHOOSE c \in opened : TRUE
                     IN  ParseSpans(Slice(html, Len(OpenTag(c)), Len(html)),
                                    c, "", spans)
           ELSE ParseSpans(Slice(html, 1, Len(html)), open,
                           IF open = "" THEN "" ELSE content \o CharAt(html, 0),
                           spans)

NotPlain(seg) == seg.type # "plain"

\* C11: the output holds one span per segment that is not plain, in the order
\* of the segments, of class token token-<category> with a category of the
\* closed set, and holding the escaped text of its segment; no span opens
\* inside another; plain segments are not wrapped; and the output without
\* its span tags, un-escaped, is the input.
RenderingPreservesSegmentation ==
  pc = "done" =>
    LET parsed  == ParseSpans(result, "", "", <<>>)
        claimed == SelectSeq(segments, NotPlain)
    IN  /\ parsed.ok
        /\ Len(parsed.spans) = Len(claimed)
        /\ \A k \in 1..Len(claimed) :
             /\ claimed[k].type \in Categories
             /\ parsed.spans[k].type = claimed[k].type
             /\ unescapeHtml(parsed.spans[k].text) = claimed[k].text
        /\ unescapeHtml(WithoutTags(result)) = code

\* an output of four spans or more with plain text between them
RenderingPreservesSegmentationWitness ==
  /\ pc = "done"
  /\ Len(ParseSpans(result, "", "", <<>>).spans) >= 4
  /\ \E j \in 2..(Len(segments) - 1) :
       /\ segments[j].type = "plain"
       /\ segments[j - 1].type # "plain"
       /\ segments[j + 1].type # "plain"

\* C12: a call returns the value an earlier call returned for the same
\* input, whatever calls ran between the two and whatever lastIndex the
\* regexes held when either was entered.
Determinism ==
  pc = "done" /\ earlier # <<>> /\ earlier[1].code = code =>
    result = earlier[1].result

\* the second of two calls on the same input, entered with lastIndex not 0
\* and with a rule that matches at the start of the input
DeterminismWitness ==
  /\ pc = "done"
  /\ earlier = <<[code |-> code, result |-> result]>>
  /\ segments[1].type = "keyword"
  /\ \E k \in 1..Len(highlightPatterns) : lastIndex[k] # 0

\* C13: whatever the rule table, a match of no character is not collected:
\* every match the scan loop pushes holds a character or more, every exec
\* call that returns a match moves lastIndex forward, so that the loop ends,
\* and no segment of a non-empty input has an empty text.
ZeroWidthTreatedAsNoMatch ==
  /\ [](pc = "exec" =>
          \A k \in 1..Len(matches) : matches[k].end > matches[k].start)
  /\ [](code # "" => \A j \in 1..Len(segments) : segments[j].text # "")
  /\ [][pc = "exec" /\ pc' = "exec" =>
          lastIndex'[patternNo] > lastIndex[patternNo]]_vars

\* what is left to do in a call: the rules after the current one, the
\* segments from i on, and the characters the exec loop has not passed (one
\* more before the loop is entered)
RulesLeft    == Len(Rules) - patternNo
SegmentsLeft == Len(segments) - i
CharsLeft ==
  IF pc = "exec" THEN Len(segment.text) - lastIndex[patternNo]
  ELSE IF i < Len(segments) THEN Len(segment.text) + 1
  ELSE 0

Running == ruleSet = 1 /\ pc \in {"apply", "exec"}

\* the guard of one of the steps of a call holds: of SkipClaimed or ScanStart,
\* of NextPattern or Render, of ExecMatch or ExecNull
CanStep ==
  \/ pc = "apply" /\ i < Len(segments)
  \/ pc = "apply" /\ i >= Len(segments) /\ patternNo <= Len(Rules)
  \/ /\ pc = "exec"
     /\ Exec(pattern.regex, segment.text, lastIndex[patternNo]).found =>
          Len(matches) <= Len(segment.text)

\* C14: with the table of the script a call cannot run for ever: in every
\* state of a call a step is possible, what is left to do is never negative,
\* and every step either ends the call or leaves less to do: a rule less, or
\* as many rules and a segment less (also after a splice that made the list
\* longer), or as many of both and fewer characters for the exec loop.
Termination ==
  /\ [](Running =>
          /\ CanStep
          /\ RulesLeft >= 0 /\ SegmentsLeft >= 0 /\ CharsLeft >= 0)
  /\ [][Running =>
          \/ pc' = "done"
          \/ RulesLeft' < RulesLeft
          \/ RulesLeft' = RulesLeft /\ SegmentsLeft' < SegmentsLeft
          \/ /\ RulesLeft' = RulesLeft
             /\ SegmentsLeft' = SegmentsLeft
             /\ CharsLeft' < CharsLeft]_vars

\* a call that has ended after splices that made the list five segments long
TerminationWitness ==
  /\ ruleSet = 1
  /\ pc = "done"
  /\ Len(segments) >= 5

\* no rule of the script matches anywhere in text
NoRuleMatches(text) ==
  \A k \in 1..Len(highlightPatterns) :
    ~Exec(highlightPatterns[k].regex, text, 0).found

\* C15: no step of a call reads a rule or a segment that does not exist (the
\* only reads that could raise), every call state has a step to take, and a
\* call on an input in which no rule matches ends with the input as its one
\* plain segment and returns the escaped input, without a span.
Totality ==
  /\ pc = "apply" =>
       /\ patternNo \in 1..Len(highlightPatterns)
       /\ i \in 0..Len(segments)
       /\ \A j \in 1..Len(segments) :
            segments[j].type \in Categories \cup {"plain"}
  /\ pc = "done" /\ NoRuleMatches(code) =>
       /\ segments = <<[text |-> code, type |-> "plain"]>>
       /\ result = Entities(code)
       /\ ParseSpans(result, "", "", <<>>) = [ok |-> TRUE, spans |-> <<>>]

\* an input of markup characters only
TotalityWitness ==
  /\ pc = "done"
  /\ code = "<&>"
  /\ NoRuleMatches(code)
  /\ result = "&lt;&amp;&gt;"

Quotes == {"\"", "'", Backtick}

\* from position p on, text holds the quote that closes a literal: the first
\* quote of that kind that no backslash escapes, with no backslash before a
\* line terminator or at the end of the text on the way
RECURSIVE ClosesFrom(_, _, _)
ClosesFrom(text, p, quote) ==
  IF p >= Len(text) THEN FALSE
  ELSE IF CharAt(text, p) = quote THEN TRUE
  ELSE IF CharAt(text, p) = "\\"
  THEN /\ p + 1 < Len(text)
       /\ CharAt(text, p + 1) \notin LineTerminator
       /\ ClosesFrom(text, p + 2, quote)
  ELSE ClosesFrom(text, p + 1, quote)

\* the character at q is a quote with no matching closing quote
UnterminatedAt(text, q) ==
  /\ CharAt(text, q) \in Quotes
  /\ ~ClosesFrom(text, q + 1, CharAt(text, q))

FirstQuote(text) ==
  CHOOSE q \in 0..(Len(text) - 1) :
    /\ CharAt(text, q) \in Quotes
    /\ \A p \in 0..(q - 1) : CharAt(text, p) \notin Quotes

\* C16 as stated: when the first quote of an input without comments has no
\* matching closing quote, every segment from that quote to the end of the
\* input is plain in the final sequence.
UnterminatedTailPlain ==
  /\ pc = "done"
  /\ \E q \in 0..(Len(code) - 1) : CharAt(code, q) \in Quotes
  /\ UnterminatedAt(code, FirstQuote(code))
  /\ ~Exec(CommentRegex, code, 0).found
  => \A j \in 1..Len(segments) :
       EndOf(segments, j) > FirstQuote(code) => segments[j].type = "plain"

\* C16: a quote with no matching closing quote begins no string segment: in
\* the final sequence it lies in a plain segment, or in a comment or a string
\* literal that begins before it.
UnterminatedQuoteUnclaimed ==
  pc = "done" =>
    \A q \in 0..(Len(code) - 1) : UnterminatedAt(code, q) =>
      \A j \in 1..Len(segments) :
        StartOf(segments, j) <= q /\ q < EndOf(segments, j) =>
          \/ segments[j].type = "plain"
          \/ /\ segments[j].type \in {"comment", "string"}
             /\ StartOf(segments, j) < q

\* the quote stays plain and the keyword rule claims the text after it
UnterminatedQuoteWitness ==
  /\ pc = "done"
  /\ code = "\"if"
  /\ segments = <<[text |-> "\"", type |-> "plain"],
                  [text |-> "if", type |-> "keyword"]>>

\* C17: a code element is tokenized once at most: highlightTypeScript has
\* run once for an element whose flag is 'true' and never for another, and
\* no step that keeps the elements of the page (a click on a tab, on a copy
\* button, a timer) changes the flag, the markup or the number of
\* tokenizations of an element whose flag is 'true'.
TokenizedOnce ==
  /\ [](\A k \in 1..Len(blocks) :
          /\ blocks[k].tokenized <= 1
          /\ blocks[k].highlighted = "true" <=> blocks[k].tokenized = 1)
  /\ [][renderNo' = renderNo =>
          \A k \in 1..Len(blocks) : blocks[k].highlighted = "true" =>
            /\ blocks'[k].highlighted = "true"
            /\ blocks'[k].innerHTML = blocks[k].innerHTML
            /\ blocks'[k].tokenized = blocks[k].tokenized]_vars

\* the tab of a panel that renderExamples highlighted has been clicked
TokenizedOnceWitness ==
  /\ Len(blocks) = 3
  /\ panels[3]
  /\ blocks[3].highlighted = "true"
  /\ blocks[3].tokenized = 1
  /\ blocks[3].innerHTML # MarkupOf(blocks[3].textContent)

\* C18: calls of several callers follow one another in any order, each run
\* to its end, on regexes whose lastIndex their users share: every call
\* returns what a call on the same input returns when it runs alone, from
\* start to end on regexes nobody else has used.
SameAsAlone == pc = "done" => result = highlightTypeScript(code)

\* a call that ended after the call of another caller on another input, and
\* that was entered with lastIndex not 0
SameAsAloneWitness ==
  /\ pc = "done"
  /\ earlier # <<>>
  /\ earlier[1].code # code
  /\ Len(earlier[1].result) > Len(earlier[1].code)
  /\ segments[1].type = "keyword"
  /\ \E k \in 1..Len(highlightPatterns) : lastIndex[k] # 0

\* C19: a call leaves nothing behind: when it is about to return and after
\* it has returned the lastIndex of every regex is 0, as it was when the call
\* was entered; no step changes the rule table; and the segment list is made
\* anew by every call and is gone when the call returns.
NoSideEffect ==
  /\ [](pc \in {"idle", "done"} =>
          \A k \in DOMAIN lastIndex : lastIndex[k] = 0)
  /\ [][Rules' = Rules]_vars
  /\ [][pc = "idle" /\ pc' = "apply" =>
          segments' = <<[text |-> code', type |-> "plain"]>>]_vars
  /\ [][pc = "done" /\ pc' = "idle" => segments' = <<>>]_vars

\* a call about to return whose exec loops have moved lastIndex: two rules
\* have claimed text
NoSideEffectWitness ==
  /\ pc = "done"
  /\ ruleSet = 2
  /\ \E j \in 1..Len(segments) : segments[j].type = "keyword"
  /\ \E j \in 1..Len(segments) : segments[j].type = "number"

\* the matches of a scan stand from left to right without overlap, and each
\* is the slice of text it names
InOrder(found, text) ==
  /\ \A k \in 1..Len(found) :
       /\ 0 <= found[k].start /\ found[k].end <= Len(text)
       /\ found[k].text = Slice(text, found[k].start, found[k].end)
  /\ \A k \in 2..Len(found) :
       /\ found[k].start > found[k - 1].start
       /\ found[k].start >= found[k - 1].end

\* replacement is text cut at the ends of the matches: the matches, with the
\* category of the rule and at their offsets, and between them the gaps,
\* plain and not empty
PartitionOf(replacement, found, text, type) ==
  /\ JoinTexts(replacement) = text
  /\ Len(SelectSeq(replacement, NotPlain)) = Len(found)
  /\ Claimed(replacement) =
       {[start |-> found[k].start, text |-> found[k].text, type |-> type] :
          k \in 1..Len(found)}
  /\ \A j \in 1..Len(replacement) : replacement[j].type = "plain" =>
       /\ replacement[j].text # ""
       /\ j < Len(replacement) => replacement[j + 1].type # "plain"

\* the tables whose rules match one character or more
MatchesCharacters == ruleSet \in {1, 2}

\* C20: while a rule scans a plain segment its matches stand from left to
\* right and do not overlap, and the splice that ends the scan puts in the
\* place of the segment its text cut at the ends of the matches: the matches
\* with the category of the rule, the gaps between them plain, each segment
\* beginning where the one before ends; the other segments stay.
PerRulePartition ==
  /\ [](MatchesCharacters /\ pc = "exec" => InOrder(matches, segment.text))
  /\ [][MatchesCharacters /\ pc = "exec" /\ pc' = "apply" /\ matches # <<>> =>
          LET added == Len(segments') - Len(segments) + 1
          IN  /\ added >= 1
              /\ SubSeq(segments', 1, i) = SubSeq(segments, 1, i)
              /\ SubSeq(segments', i + added + 1, Len(segments')) =
                   SubSeq(segments, i + 2, Len(segments))
              /\ PartitionOf(SubSeq(segments', i + 1, i + added), matches,
                             segment.text, pattern.type)]_vars

\* a scan that found two matches with a gap before, between and after them
PerRulePartitionWitness ==
  /\ ruleSet = 1
  /\ pc = "exec"
  /\ Len(matches) = 2
  /\ matches[1].start > 0
  /\ matches[2].start > matches[1].end
  /\ matches[2].end < Len(segment.text)
  /\ ~Exec(pattern.regex, segment.text, lastIndex[patternNo]).found

\* one rule applied by building a new list: the segments of segs from the
\* k-th on are taken in turn, a frozen one and a plain one without a match
\* appended as they are, a plain one with matches appended cut up
RECURSIVE FreshList(_, _, _, _)
FreshList(rule, segs, k, out) ==
  IF k > Len(segs) THEN out
  ELSE IF segs[k].type # "plain"
  THEN FreshList(rule, segs, k + 1, Append(out, segs[k]))
  ELSE LET found == ExecLoop(rule.regex, segs[k].text, 0, <<>>).matches
       IN  IF found = <<>>
           THEN FreshList(rule, segs, k + 1, Append(out, segs[k]))
           ELSE FreshList(rule, segs, k + 1,
                          out \o Replacement(found, segs[k], rule.type))

\* the list after the first k rules of table, each building a new list
RECURSIVE FreshThrough(_, _, _)
FreshThrough(table, k, text) ==
  IF k = 0 THEN <<[text |-> text, type |-> "plain"]>>
  ELSE FreshList(table[k], FreshThrough(table, k - 1, text), 1, <<>>)

\* the segments the for loop of applyPattern has not passed
ToVisit == SubSeq(segments, i + 1, Len(segments))

\* C21: the splice in place with the adjustment of i gives what building a
\* new list for each rule gives: when a rule starts and when it has passed
\* the last segment the working sequence is that list, and every step of
\* the rule either stays on its segment or passes exactly that one, leaving
\* to visit the segments that stood after it, none of those the splice put
\* in.
InPlaceAsFresh ==
  /\ [](MatchesCharacters /\ pc = "apply" /\ i = 0 =>
          segments = FreshThrough(Rules, patternNo - 1, code))
  /\ [](MatchesCharacters /\ pc = "apply" /\ i >= Len(segments) =>
          segments = FreshThrough(Rules, patternNo, code))
  /\ [][/\ MatchesCharacters
         /\ pc \in {"apply", "exec"}
         /\ pc' \in {"apply", "exec"}
         /\ patternNo' = patternNo
         => \/ i' = i /\ segments' = segments
            \/ ToVisit # <<>> /\ ToVisit' = Tail(ToVisit)]_vars

\* a splice has put a gap, a match and a gap in the list, and a segment that
\* an earlier rule froze is the next to visit
InPlaceAsFreshWitness ==
  /\ ruleSet = 1
  /\ pc = "apply"
  /\ 3 <= i /\ i < Len(segments)
  /\ segments[i + 1].type \notin {"plain", pattern.type}
  /\ segments[i].type = "plain"
  /\ segments[i - 1].type = pattern.type
  /\ segments[i - 2].type = "plain"

\* C22: with the table of the script no segment of the working sequence has
\* an empty text, except the one plain segment a call on the empty input
\* starts with and keeps.
NoEmptySegment ==
  pc \in {"apply", "done"} =>
    \/ code = "" /\ segments = <<[text |-> "", type |-> "plain"]>>
    \/ \A j \in 1..Len(segments) : segments[j].text # ""

\* a match at the very start and one at the very end of a segment, with no
\* gap before the first and none after the last
NoEmptySegmentWitness ==
  /\ pc = "done"
  /\ code = "if.if"
  /\ segments = <<[text |-> "if", type |-> "keyword"],
                  [text |-> ".", type |-> "plain"],
                  [text |-> "if", type |-> "keyword"]>>

\* C23: whenever a call is between two rules (and at every splice within a
\* rule, and on return) no two neighbours of the working sequence are both
\* plain: two plain segments have a segment with a category between them.
\* Stated for every rule table.
NoAdjacentPlain ==
  pc \in {"apply", "done"} =>
    \A j \in 1..(Len(segments) - 1) :
      ~(segments[j].type = "plain" /\ segments[j + 1].type = "plain")

\* the text before and the text after one keyword, both plain, on return
NoAdjacentPlainWitness ==
  /\ pc = "done"
  /\ ruleSet = 1
  /\ segments = <<[text |-> " ", type |-> "plain"],
                  [text |-> "if", type |-> "keyword"],
                  [text |-> " ", type |-> "plain"]>>

\* C24: on return from a call on the table of the script, no plain segment
\* of the final sequence, scanned on its own from offset 0, holds a match of
\* any of the eight rules, and applying the eight rules in order to the final
\* sequence once more returns the same sequence.
FixedPoint ==
  pc = "done" /\ ruleSet = 1 =>
    /\ \A j \in 1..Len(segments) :
         segments[j].type = "plain" =>
           \A k \in 1..Len(highlightPatterns) :
             ~Exec(highlightPatterns[k].regex, segments[j].text, 0).found
    /\ forEach(1, segments) = segments

\* a plain segment that ends with a word character where a claimed segment
\* begins, and one that begins with a word character where a claimed
\* segment ends: the cut puts the end of a text where no word boundary stood
FixedPointWitness ==
  /\ pc = "done"
  /\ ruleSet = 1
  /\ \E j \in 1..(Len(segments) - 1) :
       /\ segments[j].type = "plain"
       /\ segments[j + 1].type # "plain"
       /\ CharAt(segments[j].text, Len(segments[j].text) - 1) \in Word
  /\ \E j \in 2..Len(segments) :
       /\ segments[j].type = "plain"
       /\ segments[j - 1].type # "plain"
       /\ CharAt(segments[j].text, 0) \in Word

\* the position of the quote that closes a literal whose text begins at
\* p - 1 or before: the first quote of that kind from p on that no backslash
\* escapes; -1 when there is none
RECURSIVE ClosingQuote(_, _, _)
ClosingQuote(text, p, quote) ==
  IF p >= Len(text) THEN -1
  ELSE IF CharAt(text, p) = quote THEN p
  ELSE IF CharAt(text, p) = "\\"
  THEN IF p + 1 < Len(text) /\ CharAt(text, p + 1) \notin LineTerminator
       THEN ClosingQuote(text, p + 2, quote)
       ELSE -1
  ELSE ClosingQuote(text, p + 1, quote)

\* C25: a string segment begins with a quote character and ends with the
\* same one, and that last character is the first quote of that kind after
\* the opening one that no backslash escapes: neither an escaped quote nor a
\* quote of another kind inside the literal ends it.
StringShape ==
  pc \in {"apply", "done"} /\ ruleSet = 1 =>
    \A j \in 1..Len(segments) :
      segments[j].type = "string" =>
        LET text == segments[j].text
        IN  /\ Len(text) >= 2
            /\ CharAt(text, 0) \in Quotes
            /\ CharAt(text, Len(text) - 1) = CharAt(text, 0)
            /\ ClosingQuote(text, 1, CharAt(text, 0)) = Len(text) - 1

\* a literal between single quotes that holds an escaped single quote and a
\* double quote, followed by a literal between double quotes that holds a
\* single quote
StringShapeWitness ==
  /\ pc = "done"
  /\ ruleSet = 1
  /\ \E j \in 1..(Len(segments) - 2) :
       /\ segments[j] = [text |-> "'\\'\"'", type |-> "string"]
       /\ segments[j + 2] = [text |-> "\"'\"", type |-> "string"]

\* the text renderExamples gave the code element of number k
OriginalText(k) == ExamplesOf(Find(shown)[1])[k].code

\* C26: between calls of highlightSnippets the flag of a code element is
\* 'true' exactly when its innerHTML has been replaced, and then by the
\* output of highlightTypeScript for the text the element was given; the
\* innerHTML of an element without the flag is still the markup of that text.
\* When a call has returned, every code element under its root has the flag.
FlagMeansTokenized ==
  /\ \A k \in 1..Len(blocks) :
       /\ blocks[k].highlighted = "true" <=> blocks[k].tokenized >= 1
       /\ blocks[k].highlighted = "true" <=>
            blocks[k].innerHTML = memo[OriginalText(k)]
       /\ blocks[k].highlighted # "true" =>
            blocks[k].innerHTML = MarkupOf(OriginalText(k))
  /\ \A k \in lastRoot : blocks[k].highlighted = "true"

\* a call on the second code element only has returned: the other two have
\* no flag and the markup they were given
FlagMeansTokenizedWitness ==
  /\ Len(blocks) = 3
  /\ lastRoot = {2}
  /\ blocks[2].highlighted = "true"
  /\ blocks[2].innerHTML = memo[OriginalText(2)]
  /\ blocks[1].highlighted = "undefined"
  /\ blocks[3].highlighted = "undefined"
  /\ blocks[3].innerHTML # memo[OriginalText(3)]

\* C27: whenever a tab can be clicked, renderExamples has highlighted the
\* code element of every panel, active or not; and the call of
\* highlightSnippets that a click on a tab makes tokenizes nothing and
\* changes no code element.
RenderHighlightsAll ==
  /\ [](\A k \in 1..Len(blocks) :
          /\ blocks[k].highlighted = "true"
          /\ blocks[k].tokenized = 1)
  /\ [][(\E index \in 0..(Len(tabs) - 1) : ActivateTab(index))
          => blocks' = blocks]_vars

\* the tab of the second panel, which renderExamples left inactive, has been
\* clicked: highlightSnippets has been called on that panel
RenderHighlightsAllWitness ==
  /\ Len(blocks) = 3
  /\ panels = <<FALSE, TRUE, FALSE>>
  /\ lastRoot = {2}
  /\ blocks[2].tokenized = 1

\* C28: once renderExamples has run, and after any clicks on tabs, one tab
\* button and one only is active, aria-selected is 'true' for it and 'false'
\* for every other, and the one active panel is the panel of the same index;
\* renderExamples leaves the button and the panel of index 0 active.
OneActiveTab ==
  /\ [](Len(tabs) > 0 =>
          /\ Len(panels) = Len(tabs)
          /\ \E a \in 1..Len(tabs) :
               \A k \in 1..Len(tabs) :
                 /\ tabs[k].active <=> k = a
                 /\ tabs[k].selected = (IF k = a THEN "true" ELSE "false")
                 /\ panels[k] <=> k = a)
  /\ [][renderNo' # renderNo => tabs'[1].active /\ panels'[1]]_vars

\* the third tab is active after a second pattern was rendered
OneActiveTabWitness ==
  /\ renderNo = 2
  /\ Len(tabs) = 3
  /\ tabs[3] = [active |-> TRUE, selected |-> "true"]
  /\ tabs[1] = [active |-> FALSE, selected |-> "false"]
  /\ panels = <<FALSE, FALSE, TRUE>>

\* C29: a call of setActivePattern with an id that no pattern of the catalog
\* has changes nothing: the nav item with the class, the title, the category,
\* the summary, the benefits, the hash, the examples with their tabs, panels,
\* copy buttons and timers, and the code elements all stay as they were.
UnknownIdChangesNothing ==
  [][lastId' # lastId /\ lastId' \notin PatternIds
       => UNCHANGED <<page, elements, tokenizer>>]_vars

\* a pattern is on the page with its second tab active, and the last call
\* of setActivePattern was made with an id of no pattern
UnknownIdChangesNothingWitness ==
  /\ lastId = "unknown"
  /\ page = Header(patterns[2])
  /\ shown = "builder"
  /\ panels = <<FALSE, TRUE, FALSE>>
  /\ \A k \in 1..Len(blocks) : blocks[k].highlighted = "true"

=============================================================================
